---- MODULE Spec2Model ----
(***************************************************************************)
(* Hotel record resolution and update pipeline of saavi_backend:           *)
(* src/src/routes/my-hotels.ts (POST /add-hotel, GET /, GET /:id,          *)
(* PUT /:hotelId, PUT /update-hotel/:hotelId, uploadImages) and            *)
(* src/src/routes/auth.ts (POST /changePrice).                             *)
(*                                                                         *)
(* The document store is the sequence `hotels` in insertion (natural)      *)
(* order; findOne / findOneAndUpdate act on the first matching document.   *)
(* The store keeps documents exactly as the handlers hand them over.       *)
(***************************************************************************)
EXTENDS Integers, Sequences, FiniteSets, TLC

VARIABLES hotels, now, resp, inflight

vars == <<hotels, now, resp, inflight>>

(***************************************************************************)
(* Bounds of the model.                                                    *)
(***************************************************************************)
MaxHotels == 2
MaxImages == 2
MaxStored == 1
MaxClock == 2
MaxReqs == 2

(***************************************************************************)
(* Identifier strings.  An ObjectId is modelled by a positive number n.    *)
(* Hex(n) is its canonical 24-digit lower-case rendering, HEX(n) the       *)
(* upper-case rendering of the same 12 bytes, Txt(n) a string that is not  *)
(* 24 hex digits (such as "h1").  NoId is a missing hotelId.               *)
(***************************************************************************)
Hex(n) == [k |-> "hex", n |-> n]
HEX(n) == [k |-> "HEX", n |-> n]
Txt(n) == [k |-> "txt", n |-> n]
NoId == [k |-> "none", n |-> 0]

Users == {"u1", "u2"}
NoUser == "none"
AnyUser == "any"

CastError == 0

\* Mongoose's cast of a filter value at path _id: 24 hex digits of either
\* case give the ObjectId, any other string raises CastError.
CastObjectId(s) == IF s.k \in {"hex", "HEX"} THEN s.n ELSE CastError

\* ObjectId.prototype.toString(): the lower-case hex rendering.
ObjectIdToString(oid) == Hex(oid)

NoRec ==
  [_id |-> 0, hotelId |-> NoId, userId |-> NoUser, pricePerNight |-> 0,
   facilities |-> <<>>, imageUrls |-> <<>>, lastUpdated |-> 0]

InScope(h, scope) == scope = AnyUser \/ h.userId = scope

\* The first of the matching documents in natural order, 0 (null) if none.
FirstOf(matches) ==
  IF matches = {} THEN 0
  ELSE CHOOSE i \in matches : \A j \in matches : i <= j

\* Hotel.findOne({ _id: id, userId: scope }): throws on a malformed id.
FindOneById(store, id, scope) ==
  LET oid == CastObjectId(id)
  IN  IF oid = CastError
      THEN [err |-> TRUE, idx |-> 0]
      ELSE [err |-> FALSE,
            idx |-> FirstOf({i \in 1..Len(store) :
                      store[i]._id = oid /\ InScope(store[i], scope)})]

\* Hotel.findOne({ hotelId: id, userId: scope }): a plain string comparison.
FindOneByHotelId(store, id, scope) ==
  FirstOf({i \in 1..Len(store) :
             store[i].hotelId = id /\ InScope(store[i], scope)})

(***************************************************************************)
(* Requests.  One record shape serves every route; a route reads only the  *)
(* fields its handler reads.                                               *)
(*   user      req.userId set by verifyToken (NoUser on routes without it) *)
(*   id        the route parameter (:id / :hotelId)                        *)
(*   hotelId, owner   req.body.hotelId and req.body.userId                 *)
(*   price     req.body.pricePerNight (newPrice for /changePrice)          *)
(*   hasFac, facilities   whether req.body carries facilities, and them    *)
(*   hasImgs, imgs        whether req.body carries imageUrls, and them     *)
(*   files     req.files, each file named by the URL the media host would  *)
(*             return for it                                               *)
(*   failAt    index of the file whose upload the media host rejects, 0    *)
(*             when every upload succeeds                                  *)
(***************************************************************************)
NoRq ==
  [user |-> NoUser, id |-> NoId, hotelId |-> NoId, owner |-> NoUser,
   price |-> 0, hasFac |-> FALSE, facilities |-> <<>>, hasImgs |-> FALSE,
   imgs |-> <<>>, files |-> <<>>, failAt |-> 0]

Range(s) == {s[i] : i \in 1..Len(s)}

\* item.trim() over the facility strings of the model.
Trim(item) == IF item = " " THEN "" ELSE item

\* The custom validator of body("facilities"): an array, not empty, every
\* item a string that is not blank.  Its verdict is recorded on the request.
FacilitiesValid(rq) ==
  /\ rq.hasFac
  /\ Len(rq.facilities) # 0
  /\ \A i \in 1..Len(rq.facilities) : Trim(rq.facilities[i]) # ""

\* uploadImages: one upload per file, all issued together; Promise.all
\* rejects if any one rejects, otherwise yields the URLs in input order.
\* sent is what reached the media host either way.
uploadImages(files, failAt) ==
  [ok |-> failAt = 0,
   urls |-> IF failAt = 0 THEN files ELSE <<>>,
   sent |-> {files[i] : i \in (1..Len(files)) \ {failAt}}]

NoUpload == [ok |-> TRUE, urls |-> <<>>, sent |-> {}]

(***************************************************************************)
(* The response of the last completed request, with what the claims need   *)
(* of its history:                                                         *)
(*   found    index of the document the handler resolved (0: none)         *)
(*   pre      the resolved document as the handler read it                 *)
(*   before   the stored document right before the handler's last write    *)
(*   mid      a document another request wrote to the same _id between     *)
(*            this request's read and its write (NoRec: none)              *)
(***************************************************************************)
Reply(op, status, rq, found, pre, before, body, up, list, mid) ==
  [op |-> op, status |-> status, rq |-> rq, found |-> found, pre |-> pre,
   before |-> before, body |-> body, uploaded |-> up.sent, urls |-> up.urls,
   list |-> list, mid |-> mid, valid |-> FacilitiesValid(rq), time |-> now]

NoResp ==
  [op |-> "none", status |-> 0, rq |-> NoRq, found |-> 0, pre |-> NoRec,
   before |-> NoRec, body |-> NoRec, uploaded |-> {}, urls |-> <<>>,
   list |-> <<>>, mid |-> NoRec, valid |-> FALSE, time |-> 0]

\* A request of the concurrent runs: not yet made, between its read and its
\* write (busy), or answered (done).
Idle ==
  [busy |-> FALSE, done |-> FALSE, rq |-> NoRq, found |-> 0,
   existing |-> NoRec, mid |-> NoRec]
Answered == [Idle EXCEPT !.done = TRUE]

Reqs == 1..MaxReqs

Init ==
  /\ hotels = <<>>
  /\ now = 0
  /\ resp = NoResp
  /\ inflight = [r \in Reqs |-> Idle]

(***************************************************************************)
(* POST /add-hotel                                                         *)
(***************************************************************************)
NewHotel(rq, imageUrls, oid) ==
  [_id |-> oid, hotelId |-> rq.hotelId, userId |-> rq.owner,
   pricePerNight |-> rq.price,
   facilities |-> IF rq.hasFac THEN rq.facilities ELSE <<>>,
   imageUrls |-> imageUrls, lastUpdated |-> now]

AddHotel(rq) ==
  LET up == uploadImages(rq.files, rq.failAt)
      hotel == NewHotel(rq, up.urls, Len(hotels) + 1)
  IN  /\ IF up.ok
         THEN /\ hotels' = Append(hotels, hotel)
              /\ resp' = Reply("add", 201, rq, Len(hotels) + 1, NoRec, NoRec,
                               hotel, up, <<>>, NoRec)
         ELSE /\ hotels' = hotels
              /\ resp' = Reply("add", 500, rq, 0, NoRec, NoRec, NoRec, up,
                               <<>>, NoRec)
      /\ UNCHANGED <<now, inflight>>

(***************************************************************************)
(* GET /  and  GET /:id                                                    *)
(***************************************************************************)
OwnedBy(u) == LET Mine(h) == h.userId = u IN SelectSeq(hotels, Mine)

GetMyHotels(rq) ==
  /\ resp' = Reply("list", 200, rq, 0, NoRec, NoRec, NoRec, NoUpload,
                   OwnedBy(rq.user), NoRec)
  /\ UNCHANGED <<hotels, now, inflight>>

\* The lookup of GET /:id: by _id, then by hotelId when the first yields
\* null; a CastError of the first lookup leaves the try block.
ResolveGet(store, id, scope) ==
  LET byId == FindOneById(store, id, scope)
  IN  IF byId.err THEN [err |-> TRUE, idx |-> 0]
      ELSE IF byId.idx # 0 THEN byId
      ELSE [err |-> FALSE, idx |-> FindOneByHotelId(store, id, scope)]

GetHotel(rq) ==
  LET r == ResolveGet(hotels, rq.id, rq.user)
      status == IF r.err THEN 500 ELSE IF r.idx = 0 THEN 404 ELSE 200
      hotel == IF r.idx = 0 THEN NoRec ELSE hotels[r.idx]
  IN  /\ resp' = Reply("get", status, rq, r.idx, hotel, hotel, hotel,
                       NoUpload, <<>>, NoRec)
      /\ UNCHANGED <<hotels, now, inflight>>

(***************************************************************************)
(* PUT /:hotelId  (Policy A)                                               *)
(***************************************************************************)
\* The lookup of both PUT routes: by _id, and by hotelId only when the
\* first lookup throws; a null from the first lookup is the answer.
ResolvePut(store, id, scope) ==
  LET byId == FindOneById(store, id, scope)
  IN  IF byId.err THEN FindOneByHotelId(store, id, scope) ELSE byId.idx

\* findOneAndUpdate(filter, updatedHotel): $set of every field of req.body
\* and of lastUpdated on the matched document.
SetBody(h, rq, time) ==
  [h EXCEPT !.pricePerNight = rq.price,
            !.facilities = IF rq.hasFac THEN rq.facilities ELSE @,
            !.imageUrls = IF rq.hasImgs THEN rq.imgs ELSE @,
            !.lastUpdated = time]

\* Faulty variant of PutImageUrls: the uploads are put in front of the list the
\* document holds instead of the list the request body carries.
PutImageUrlsOntoStored(h, rq, uploaded) == uploaded \o h.imageUrls

\* hotel.imageUrls = [...updatedImageUrls, ...(updatedHotel.imageUrls || [])]
PutImageUrls(h, rq, uploaded) == uploaded \o (IF rq.hasImgs THEN rq.imgs ELSE <<>>)

PutHotel(rq) ==
  LET idx == ResolvePut(hotels, rq.id, rq.user)
      pre == IF idx = 0 THEN NoRec ELSE hotels[idx]
      set == SetBody(pre, rq, now)
      up == uploadImages(rq.files, rq.failAt)
      saved == [set EXCEPT !.imageUrls = PutImageUrls(set, rq, up.urls)]
  IN  /\ IF idx = 0
         THEN /\ hotels' = hotels
              /\ resp' = Reply("putA", 404, rq, 0, NoRec, NoRec, NoRec,
                               NoUpload, <<>>, NoRec)
         ELSE IF ~up.ok
         THEN /\ hotels' = [hotels EXCEPT ![idx] = set]
              /\ resp' = Reply("putA", 500, rq, idx, pre, pre, NoRec, up,
                               <<>>, NoRec)
         ELSE /\ hotels' = [hotels EXCEPT ![idx] = saved]
              /\ resp' = Reply("putA", 201, rq, idx, pre, set, saved, up,
                               <<>>, NoRec)
      /\ UNCHANGED <<now, inflight>>

(***************************************************************************)
(* PUT /update-hotel/:hotelId  (Policy B)                                  *)
(***************************************************************************)
\* Faulty variant of MergeHotel: the request body is spread last, so its imageUrls
\* replace the computed list.
MergeHotelBodyLast(existing, rq, newUrls, time) ==
  [existing EXCEPT !.pricePerNight = rq.price,
                   !.facilities = IF rq.hasFac THEN rq.facilities ELSE @,
                   !.imageUrls = IF rq.hasImgs THEN rq.imgs
                                 ELSE existing.imageUrls \o newUrls,
                   !.lastUpdated = time]

\* { ...existingHotel.toObject(), ...updatedFields, imageUrls, lastUpdated }
MergeHotel(existing, rq, newUrls, time) ==
  [existing EXCEPT !.pricePerNight = rq.price,
                   !.facilities = IF rq.hasFac THEN rq.facilities ELSE @,
                   !.imageUrls = existing.imageUrls \o newUrls,
                   !.lastUpdated = time]

\* The document the final findOneAndUpdate of Policy B matches: queried by
\* _id when the parameter is the canonical string of the resolved _id, by
\* hotelId otherwise.
UpdateTarget(store, existing, id) ==
  IF ObjectIdToString(existing._id) = id
  THEN FindOneById(store, id, AnyUser).idx
  ELSE FindOneByHotelId(store, id, AnyUser)

\* Faulty variant of Persist: the new URLs are appended to the image list the
\* matched document holds at the write, not to the list read earlier.
PersistAppending(store, existing, id, updatedHotel) ==
  LET t == UpdateTarget(store, existing, id)
      added == SubSeq(updatedHotel.imageUrls, Len(existing.imageUrls) + 1,
                      Len(updatedHotel.imageUrls))
  IN  IF t = 0 THEN [status |-> 404, store |-> store, idx |-> 0]
      ELSE IF store[t]._id # updatedHotel._id
      THEN [status |-> 500, store |-> store, idx |-> t]
      ELSE [status |-> 200, idx |-> t,
            store |-> [store EXCEPT ![t] =
              [updatedHotel EXCEPT !.imageUrls = store[t].imageUrls \o added]]]

\* What the final findOneAndUpdate does: null when nothing matches, an
\* error when the $set would change the matched document's _id (the store
\* refuses it), otherwise every field of updatedHotel is written.
Persist(store, existing, id, updatedHotel) ==
  LET t == UpdateTarget(store, existing, id)
  IN  IF t = 0 THEN [status |-> 404, store |-> store, idx |-> 0]
      ELSE IF store[t]._id # updatedHotel._id
      THEN [status |-> 500, store |-> store, idx |-> t]
      ELSE [status |-> 200, store |-> [store EXCEPT ![t] = updatedHotel],
            idx |-> t]

\* The handler from the upload on, given the document it resolved.
Finish(rq, found, existing, mid) ==
  LET up == IF Len(rq.files) > 0 THEN uploadImages(rq.files, rq.failAt)
            ELSE NoUpload
      updatedHotel == MergeHotel(existing, rq, up.urls, now)
      p == Persist(hotels, existing, rq.id, updatedHotel)
      before == IF p.idx = 0 THEN NoRec ELSE hotels[p.idx]
  IN  IF ~up.ok
      THEN /\ hotels' = hotels
           /\ resp' = Reply("putB", 500, rq, found, existing, NoRec, NoRec,
                            up, <<>>, mid)
      ELSE /\ hotels' = p.store
           /\ resp' = Reply("putB", p.status, rq, p.idx, existing, before,
                            IF p.status = 200 THEN updatedHotel ELSE NoRec,
                            up, <<>>, mid)

\* The whole handler, run to its response with no other request between
\* its read and its write.
UpdateHotel(rq) ==
  LET idx == ResolvePut(hotels, rq.id, AnyUser)
  IN  /\ IF idx = 0
         THEN /\ hotels' = hotels
              /\ resp' = Reply("putB", 404, rq, 0, NoRec, NoRec, NoRec,
                               NoUpload, <<>>, NoRec)
         ELSE Finish(rq, idx, hotels[idx], NoRec)
      /\ UNCHANGED <<now, inflight>>

\* The same handler as two steps of request r: up to the await of the
\* first findOne, and everything after it.
UpdateHotelResolve(r, rq) ==
  LET idx == ResolvePut(hotels, rq.id, AnyUser)
  IN  /\ ~inflight[r].busy /\ ~inflight[r].done
      /\ IF idx = 0
         THEN /\ resp' = Reply("putB", 404, rq, 0, NoRec, NoRec, NoRec,
                               NoUpload, <<>>, NoRec)
              /\ inflight' = [inflight EXCEPT ![r] = Answered]
         ELSE /\ resp' = resp
              /\ inflight' = [inflight EXCEPT ![r] =
                   [busy |-> TRUE, done |-> FALSE, rq |-> rq, found |-> idx,
                    existing |-> hotels[idx], mid |-> NoRec]]
      /\ UNCHANGED <<hotels, now>>

\* Request q after request r has answered: if r wrote the document q has
\* read, q's history holds what r wrote.
Noted(q, r) ==
  IF q = r THEN Answered
  ELSE IF /\ inflight[q].busy
          /\ resp'.status = 200
          /\ resp'.body._id = inflight[q].existing._id
  THEN [inflight[q] EXCEPT !.mid = resp'.body]
  ELSE inflight[q]

UpdateHotelPersist(r) ==
  /\ inflight[r].busy
  /\ Finish(inflight[r].rq, inflight[r].found, inflight[r].existing,
            inflight[r].mid)
  /\ inflight' = [q \in Reqs |-> Noted(q, r)]
  /\ UNCHANGED now

(***************************************************************************)
(* POST /changePrice                                                       *)
(***************************************************************************)
\* Hotel.findOneAndUpdate({ userId: hotelId }, { pricePerNight: newPrice })
\* answers with the document as it was; the hotel.save() that follows has
\* nothing to write.
ChangePrice(rq, key) ==
  LET idx == FirstOf({i \in 1..Len(hotels) : hotels[i].userId = key})
  IN  /\ IF idx = 0
         THEN /\ hotels' = hotels
              /\ resp' = Reply("price", 400, rq, 0, NoRec, NoRec, NoRec,
                               NoUpload, <<>>, NoRec)
         ELSE /\ hotels' = [hotels EXCEPT ![idx].pricePerNight = rq.price]
              /\ resp' = Reply("price", 200, rq, idx, hotels[idx],
                               hotels[idx], NoRec, NoUpload, <<>>, NoRec)
      /\ UNCHANGED <<now, inflight>>

\* Time passes between requests.
Tick ==
  /\ now < MaxClock
  /\ now' = now + 1
  /\ UNCHANGED <<hotels, resp, inflight>>

(***************************************************************************)
(* Inputs of the model.                                                    *)
(***************************************************************************)
Urls == {"a", "b"}
Prices == {100, 120}
SeqsUpTo(S, n) == UNION {[1..k -> S] : k \in 0..n}
ImgSeqs == SeqsUpTo(Urls, MaxImages)

\* Route parameters: the strings of the ObjectIds the store can hold and of
\* one it cannot, an upper-case one, and two strings that are not ObjectIds.
ParamIds == {Hex(n) : n \in 1..(MaxHotels + 1)} \cup {HEX(1), Txt(1), Txt(2)}

\* hotelId of a new hotel: not an ObjectId string, the string of another
\* document's _id in either case, or an ObjectId string that is no
\* document's _id.
BodyIds == {Txt(1), Hex(1), HEX(1), Hex(MaxHotels + 1)}

\* A facilities field: absent, empty, with a blank entry, or well formed.
FacCases ==
  {[has |-> FALSE, fac |-> <<>>], [has |-> TRUE, fac |-> <<>>],
   [has |-> TRUE, fac |-> <<"wifi", " ">>], [has |-> TRUE, fac |-> <<"wifi">>]}
GoodFac == [has |-> TRUE, fac |-> <<"wifi">>]

\* An imageUrls field of a request body: absent, or a list of URLs.
NoImgs == [has |-> FALSE, imgs |-> <<>>]
ImgCases == {NoImgs} \cup {[has |-> TRUE, imgs |-> s] : s \in ImgSeqs}

\* req.files and the media host's verdict: no file, files that all upload,
\* and batches in which one upload is rejected.
NoFiles == [files |-> <<>>, failAt |-> 0]
FewUploads ==
  {NoFiles, [files |-> <<"a">>, failAt |-> 0], [files |-> <<"b">>, failAt |-> 0],
   [files |-> <<"b">>, failAt |-> 1]}
UploadCases ==
  FewUploads \cup {[files |-> <<"a", "b">>, failAt |-> 0],
                   [files |-> <<"a", "b">>, failAt |-> 2]}

AddRq(hotelId, owner, price, f, fl) ==
  [NoRq EXCEPT !.hotelId = hotelId, !.owner = owner, !.price = price,
               !.hasFac = f.has, !.facilities = f.fac, !.files = fl.files,
               !.failAt = fl.failAt]

GetRq(u, id) == [NoRq EXCEPT !.user = u, !.id = id]

PutRq(u, id, price, f, im, fl) ==
  [NoRq EXCEPT !.user = u, !.id = id, !.price = price, !.hasFac = f.has,
               !.facilities = f.fac, !.hasImgs = im.has, !.imgs = im.imgs,
               !.files = fl.files, !.failAt = fl.failAt]

PriceRq(u, price) == [NoRq EXCEPT !.user = u, !.price = price]

\* No stored image list is longer than MaxImages.
ImagesBounded(store) ==
  \A i \in 1..Len(store) : Len(store[i].imageUrls) <= MaxImages

(***************************************************************************)
(* SpecResolve: the lookups.  Hotels of two owners under every kind of     *)
(* hotelId, read and updated under every kind of route parameter.          *)
(***************************************************************************)
NextResolve ==
  \/ \E h \in BodyIds, o \in Users :
       /\ Len(hotels) < MaxHotels
       /\ AddHotel(AddRq(h, o, 100, GoodFac, NoFiles))
  \/ \E u \in Users : GetMyHotels(GetRq(u, NoId))
  \/ \E u \in Users, id \in ParamIds : GetHotel(GetRq(u, id))
  \/ \E u \in Users, id \in ParamIds :
       PutHotel(PutRq(u, id, 120, GoodFac, NoImgs, NoFiles))
  \/ \E id \in ParamIds :
       UpdateHotel(PutRq(NoUser, id, 120, GoodFac, NoImgs, NoFiles))

SpecResolve == Init /\ [][NextResolve]_vars

(***************************************************************************)
(* SpecUpload: one hotel, created and updated under both policies with     *)
(* every facilities field and every batch of files.                        *)
(***************************************************************************)
NextUpload ==
  \/ \E f \in FacCases, fl \in UploadCases :
       /\ Len(hotels) < MaxStored
       /\ AddHotel(AddRq(Txt(1), "u1", 100, f, fl))
  \/ \E im \in {NoImgs, [has |-> TRUE, imgs |-> <<"a">>]}, fl \in UploadCases :
       /\ PutHotel(PutRq("u1", Txt(1), 120, GoodFac, im, fl))
       /\ ImagesBounded(hotels')
  \/ \E f \in FacCases, fl \in UploadCases :
       /\ UpdateHotel(PutRq(NoUser, Txt(1), 120, f, NoImgs, fl))
       /\ ImagesBounded(hotels')

SpecUpload == Init /\ [][NextUpload]_vars

(***************************************************************************)
(* SpecImages: Policy A under every imageUrls field of the request body.   *)
(***************************************************************************)
NextImages ==
  \/ \E fl \in FewUploads :
       /\ Len(hotels) < MaxStored
       /\ AddHotel(AddRq(Txt(1), "u1", 100, GoodFac, fl))
  \/ \E im \in ImgCases, fl \in FewUploads :
       /\ PutHotel(PutRq("u1", Txt(1), 100, GoodFac, im, fl))
       /\ ImagesBounded(hotels')

SpecImages == Init /\ [][NextImages]_vars

(***************************************************************************)
(* SpecClock: every mutating route as time passes.                         *)
(***************************************************************************)
NextClock ==
  \/ /\ Len(hotels) < MaxStored
     /\ AddHotel(AddRq(Txt(1), "u1", 100, GoodFac, NoFiles))
  \/ \E p \in Prices : PutHotel(PutRq("u1", Txt(1), p, GoodFac, NoImgs, NoFiles))
  \/ \E p \in Prices : UpdateHotel(PutRq(NoUser, Txt(1), p, GoodFac, NoImgs, NoFiles))
  \/ \E u \in Users, key \in Users, p \in Prices : ChangePrice(PriceRq(u, p), key)
  \/ Tick

SpecClock == Init /\ [][NextClock]_vars

(***************************************************************************)
(* SpecRace: Policy B updates in flight together, each split at the await  *)
(* between its read and its write.                                         *)
(***************************************************************************)
\* Policy B requests: by business key and by primary key, with and without
\* an imageUrls field in the body, with every batch of FewUploads.
RaceRqs ==
  {PutRq(NoUser, id, 120, GoodFac, im, fl) :
     id \in {Txt(1), Hex(1)}, im \in {NoImgs, [has |-> TRUE, imgs |-> <<"a">>]},
     fl \in FewUploads}

NextRace ==
  \/ \E fl \in {NoFiles, [files |-> <<"b">>, failAt |-> 0]} :
       /\ Len(hotels) < MaxStored
       /\ AddHotel(AddRq(Txt(1), "u1", 100, GoodFac, fl))
  \/ \E r \in Reqs, rq \in RaceRqs : UpdateHotelResolve(r, rq)
  \/ \E r \in Reqs :
       /\ UpdateHotelPersist(r)
       /\ ImagesBounded(hotels')

SpecRace == Init /\ [][NextRace]_vars

(***************************************************************************)
(* Vocabulary of the properties.                                           *)
(***************************************************************************)
\* The identifier names document h by its primary key / its business key.
IsPrimaryKeyOf(id, h) == CastObjectId(id) # CastError /\ h._id = CastObjectId(id)
IsBusinessKeyOf(id, h) == h.hotelId = id

\* The owner scope a route resolves under.
ScopeOf(r) == IF r.op = "putB" THEN AnyUser ELSE r.rq.user

\* Some document in scope carries the identifier as primary / business key.
MatchedByPrimary(id, scope) ==
  \E i \in 1..Len(hotels) : InScope(hotels[i], scope) /\ IsPrimaryKeyOf(id, hotels[i])
MatchedByBusiness(id, scope) ==
  \E i \in 1..Len(hotels) : InScope(hotels[i], scope) /\ IsBusinessKeyOf(id, hotels[i])

\* The last request resolved a document.
Resolved == resp.pre # NoRec

\* The document the last request resolved, as it is stored now.
Stored == hotels[resp.found]

(***************************************************************************)
(* C1: every created hotel R is returned by GET /:id under R's owner, both *)
(* for R's primary key and for R's business key, whatever the format of    *)
(* the business key.                                                       *)
(***************************************************************************)
C1_ResolveReturnsCreated ==
  resp.op = "get" =>
    \A i \in 1..Len(hotels) :
      (/\ hotels[i].userId = resp.rq.user
       /\ \/ resp.rq.id = ObjectIdToString(hotels[i]._id)
          \/ resp.rq.id = hotels[i].hotelId)
      => (resp.status = 200 /\ resp.body = hotels[i])

(***************************************************************************)
(* C2: in GET /:id, PUT /:hotelId and PUT /update-hotel/:hotelId the       *)
(* business-key lookup is made in both failure cases of the primary-key    *)
(* lookup (an error, no match), so an identifier that is some document's   *)
(* business key and no document's primary key resolves to a document with  *)
(* that business key.                                                      *)
(***************************************************************************)
C2_FallbackInBothCases ==
  (/\ resp.op \in {"get", "putA", "putB"}
   /\ ~MatchedByPrimary(resp.rq.id, ScopeOf(resp))
   /\ MatchedByBusiness(resp.rq.id, ScopeOf(resp)))
  => (Resolved /\ IsBusinessKeyOf(resp.rq.id, resp.pre))

(***************************************************************************)
(* C3: an identifier that matches no document by either key, malformed     *)
(* ones included, ends GET /:id and PUT /update-hotel/:hotelId with 404,   *)
(* never with an internal error.                                           *)
(***************************************************************************)
C3_NoMatchIsNotFound ==
  (/\ resp.op \in {"get", "putB"}
   /\ ~MatchedByPrimary(resp.rq.id, ScopeOf(resp))
   /\ ~MatchedByBusiness(resp.rq.id, ScopeOf(resp)))
  => resp.status = 404

(***************************************************************************)
(* C7: GET /:id, GET / and PUT /:hotelId issued by user u never return and *)
(* never change a hotel of another owner, and a request that names only    *)
(* another owner's hotel ends with 404.                                    *)
(***************************************************************************)
NamesHotel(id, h) == IsPrimaryKeyOf(id, h) \/ IsBusinessKeyOf(id, h)

NamesOnlyOthers(id, u) ==
  /\ \E i \in 1..Len(hotels) : hotels[i].userId # u /\ NamesHotel(id, hotels[i])
  /\ \A i \in 1..Len(hotels) : hotels[i].userId = u => ~NamesHotel(id, hotels[i])

OthersUntouched ==
  \A i \in 1..Len(hotels) :
    hotels[i].userId # resp'.rq.user =>
      /\ hotels'[i] = hotels[i]
      /\ resp'.body # hotels[i]
      /\ \A j \in 1..Len(resp'.list) : resp'.list[j] # hotels[i]

C7_OwnerScoping ==
  [][resp'.op \in {"get", "list", "putA"} =>
       /\ OthersUntouched
       /\ (resp'.op # "list" /\ NamesOnlyOthers(resp'.rq.id, resp'.rq.user))
            => resp'.status = 404]_vars

\* The part of C7 that does not depend on how a malformed identifier ends.
OwnerScopeSafety ==
  [][resp'.op \in {"get", "list", "putA"} => OthersUntouched]_vars

(***************************************************************************)
(* C6: under both update policies, when the upload of one of the files     *)
(* fails the call ends with 500 and the stored hotel is what it was before *)
(* the call.                                                               *)
(***************************************************************************)
C6_FailedUploadWritesNothing ==
  (/\ resp.op \in {"putA", "putB"}
   /\ Resolved
   /\ resp.rq.failAt # 0)
  => (resp.status = 500 /\ Stored = resp.pre)

(***************************************************************************)
(* C8: every successful mutation of a stored hotel (create, Policy A,      *)
(* Policy B, price change) sets its lastUpdated to the time of the call.   *)
(***************************************************************************)
C8_MutationStampsTime ==
  (\/ resp.op = "add" /\ resp.status = 201
   \/ resp.op = "putA" /\ resp.status = 201
   \/ resp.op = "putB" /\ resp.status = 200
   \/ resp.op = "price" /\ resp.status = 200
        /\ resp.pre.pricePerNight # resp.rq.price)
  => Stored.lastUpdated = resp.time

(***************************************************************************)
(* C9: a create or Policy B request whose facilities are missing, empty or *)
(* hold a blank entry is answered with a client error before anything is   *)
(* uploaded or stored, so every stored hotel has a non-empty list of       *)
(* non-blank facilities.                                                   *)
(***************************************************************************)
C9_FacilitiesValidated ==
  /\ (resp.op \in {"add", "putB"} /\ ~resp.valid)
       => (resp.status \in 400..499 /\ resp.uploaded = {})
  /\ \A i \in 1..Len(hotels) :
       /\ hotels[i].facilities # <<>>
       /\ \A j \in 1..Len(hotels[i].facilities) :
            Trim(hotels[i].facilities[j]) # ""

(***************************************************************************)
(* C4: after a successful Policy A update every image reference the hotel  *)
(* held before the call is still held, whether or not the request body     *)
(* repeats it (the statement as claimed).                                  *)
(***************************************************************************)
C4_PolicyANeverDropsImages ==
  (resp.op = "putA" /\ resp.status = 201)
  => Range(resp.pre.imageUrls) \subseteq Range(Stored.imageUrls)

(***************************************************************************)
(* C4 as amended: after a successful Policy A update the stored image      *)
(* list is the URLs of the uploaded files followed by the imageUrls of the *)
(* request body, so a reference held before the call is still held exactly *)
(* when the body repeats it or an upload of the call returned it.          *)
(***************************************************************************)
ClientImages(rq) == IF rq.hasImgs THEN rq.imgs ELSE <<>>

C4_PolicyAImagesFromRequest ==
  (resp.op = "putA" /\ resp.status = 201)
  => /\ Stored.imageUrls = resp.rq.files \o ClientImages(resp.rq)
     /\ \A u \in Range(resp.pre.imageUrls) :
          u \in Range(Stored.imageUrls)
            <=> u \in Range(ClientImages(resp.rq)) \cup Range(resp.rq.files)

\* A successful Policy A update that kept a repeated reference and dropped
\* one the body did not repeat.
C4_Witness ==
  /\ resp.op = "putA" /\ resp.status = 201 /\ resp.rq.hasImgs
  /\ \E u \in Range(resp.pre.imageUrls) :
       u \in Range(resp.rq.imgs) /\ u \in Range(Stored.imageUrls)
  /\ \E v \in Range(resp.pre.imageUrls) : v \notin Range(Stored.imageUrls)

(***************************************************************************)
(* C5: a successful Policy B update that nothing interfered with (the      *)
(* stored hotel at its write is the hotel it read) leaves the image list   *)
(* at the list before the call followed by the URLs of the uploaded files, *)
(* and at exactly the list before the call when there are no files, even   *)
(* if the request body carries imageUrls.                                  *)
(***************************************************************************)
C5_PolicyBAppendsUploads ==
  (resp.op = "putB" /\ resp.status = 200 /\ resp.before = resp.pre)
  => /\ Stored.imageUrls = resp.before.imageUrls \o resp.rq.files
     /\ resp.rq.files = <<>> => Stored.imageUrls = resp.before.imageUrls

\* Such an update of a hotel with images, with files, and with a body whose
\* imageUrls differ from the stored ones.
C5_Witness ==
  /\ resp.op = "putB" /\ resp.status = 200 /\ resp.before = resp.pre
  /\ resp.pre.imageUrls # <<>>
  /\ resp.rq.files # <<>>
  /\ resp.rq.hasImgs /\ resp.rq.imgs # resp.pre.imageUrls

(***************************************************************************)
(* C10: lost update under Policy B.  When another Policy B call answered   *)
(* 200 after writing the hotel between this call's read and this call's    *)
(* write, this call still answers 200 and stores the image list it read    *)
(* followed by its own uploads: what the other call appended is not there. *)
(***************************************************************************)
C10_StaleReadOverwrites ==
  (resp.op = "putB" /\ resp.status = 200 /\ resp.mid # NoRec)
  => /\ Stored.imageUrls = resp.pre.imageUrls \o resp.rq.files
     /\ \A u \in Range(resp.mid.imageUrls) :
          u \notin Range(resp.pre.imageUrls) \cup Range(resp.rq.files)
            => u \notin Range(Stored.imageUrls)

\* Two calls answered 200, the second read before the first wrote and wrote
\* after it, and an image reference the first appended is gone.
C10_Witness ==
  /\ resp.op = "putB" /\ resp.status = 200 /\ resp.mid # NoRec
  /\ resp.mid._id = Stored._id
  /\ \E u \in Range(resp.mid.imageUrls) :
       u \notin Range(resp.pre.imageUrls) /\ u \notin Range(Stored.imageUrls)

====
